---- MODULE Spec2Model ----
(***************************************************************************)
(* Session orchestration of wfdiag-backend: DiagnosticService              *)
(* (wfdiag-backend/src/service.rs), the runner loop it drives              *)
(* (src/diagnostics.rs, run_all_diagnostics) and the progress channel      *)
(* created by run_server or run_cli_mode (wfdiag-backend/src/main.rs).     *)
(*                                                                         *)
(* Every critical section of the per-session tokio Mutex and of the        *)
(* AppState std Mutex is one atomic action; a handler is split exactly at  *)
(* its await points.  Timestamps are modelled by their presence only.      *)
(* f32 progress values are exact fractions <<num, den>> in lowest terms.   *)
(***************************************************************************)
EXTENDS Integers, Sequences, FiniteSets, TLC

\* ------------------------------------------------------------------ bounds
MaxSessions == 1
MaxReqLen == 2
NumUserTasks == 2
NumAdminTasks == 1
ChanCap == 2
MaxCancelCalls == 2

\* ----------------------------------------------------------- task catalog
\* Leading entries of the two blocks of DIAGNOSTIC_TASKS (declaration order).
UserTaskNames == <<"Computer System", "Processor", "Physical Memory">>
AdminTaskNames == <<"Chkdsk", "Battery Report">>

DIAGNOSTIC_TASKS ==
  [i \in 1..(NumUserTasks + NumAdminTasks) |->
     IF i <= NumUserTasks
       THEN [name |-> UserTaskNames[i], admin_required |-> FALSE]
       ELSE [name |-> AdminTaskNames[i - NumUserTasks], admin_required |-> TRUE]]

\* task.name.to_lowercase().replace(" ", "_")
TaskId(name) ==
  CASE name = "Computer System" -> "computer_system"
    [] name = "Processor" -> "processor"
    [] name = "Physical Memory" -> "physical_memory"
    [] name = "Chkdsk" -> "chkdsk"
    [] name = "Battery Report" -> "battery_report"
    [] OTHER -> name

IsVisible(task, admin) == ~task.admin_required \/ admin

\* tasks of run_all_diagnostics: the catalog filtered by privilege
FilteredTasks(admin) == SelectSeq(DIAGNOSTIC_TASKS, LAMBDA t : IsVisible(t, admin))

\* Ids a request may hold: one of a task every caller sees, one of an
\* admin-only task, one that names no task
RequestIds == {TaskId(DIAGNOSTIC_TASKS[NumUserTasks].name),
               TaskId(DIAGNOSTIC_TASKS[NumUserTasks + 1].name),
               "unknown_id"}
Requests == UNION {[1..n -> RequestIds] : n \in 0..MaxReqLen}
\* The request of the scenario with an unmatched id
ScenarioRequests == {<<TaskId(DIAGNOSTIC_TASKS[NumUserTasks].name), "unknown_id">>}
OutputFormats == {"Json", "Zip", "Both"}

\* ------------------------------------------------------------ f32 progress
RECURSIVE Gcd(_, _)
Gcd(a, b) == IF b = 0 THEN a ELSE Gcd(b, a % b)

\* n as f32 / d as f32, d > 0
Frac(n, d) == LET g == Gcd(n, d) IN <<n \div g, d \div g>>
Zero == <<0, 1>>
One == <<1, 1>>
Leq(p, q) == p[1] * q[2] <= q[1] * p[2]

\* ------------------------------------------------------------------- state
SessionIds == 1..MaxSessions
Terminal == {"Completed", "Failed", "Cancelled"}

VARIABLES
  is_admin,        \* admin::is_running_as_admin(), fixed for the process
  sessions,        \* SessionStore: id -> DiagnosticSession
  session_lock,    \* holder of the session's tokio Mutex across an await
  selected_tasks,  \* request.selected_tasks captured by the spawned runner
  rpc,             \* position of the spawned runner task
  idx,             \* loop index i of run_all_diagnostics
  result,          \* result of run_diagnostics_with_progress
  app_state,       \* the runner's AppState (std Mutex)
  mpc,             \* position of the monitor task
  mon_local,       \* values the monitor copied out of AppState
  mon_update,      \* the ProgressUpdate the monitor is about to send
  abort_req,       \* monitor_handle.abort() has been called
  channel,         \* mpsc channel of ProgressUpdate (the server never receives)
  cancelLog,       \* results returned by cancel_session, per id
  lastRead,        \* last snapshot returned by get_session, per id
  polls,           \* get_session calls answered so far, per id, counted to 2
  stderr,          \* tasks named by the runner's eprintln!("Error in task ..")
  rd,              \* per id: a get_session call holds the store's read lock
  wr,              \* a start_diagnostics call waits for the store's write lock
  cli              \* position of run_cli_mode ("off": the process is a server)

vars == <<is_admin, sessions, session_lock, selected_tasks, rpc, idx, result,
          app_state, mpc, mon_local, mon_update, abort_req, channel,
          cancelLog, lastRead, polls, stderr, rd, wr, cli>>

NoApp == [progress |-> Zero, current_task |-> "", is_running |-> FALSE,
          tasks_completed |-> 0, total_tasks |-> 0]
NoUpdate == [session_id |-> 0, progress |-> Zero, status |-> "Pending",
             completed_tasks |-> 0, total_tasks |-> 0]
NoRead == [status |-> "NotFound"]

\* DiagnosticService::new: an empty store, no task spawned
InitService ==
  /\ is_admin \in BOOLEAN
  /\ sessions = <<>>
  /\ session_lock = [s \in SessionIds |-> "free"]
  /\ selected_tasks = [s \in SessionIds |-> <<>>]
  /\ rpc = [s \in SessionIds |-> "none"]
  /\ idx = [s \in SessionIds |-> 0]
  /\ result = [s \in SessionIds |-> "none"]
  /\ app_state = [s \in SessionIds |-> NoApp]
  /\ mpc = [s \in SessionIds |-> "none"]
  /\ mon_local = [s \in SessionIds |-> NoApp]
  /\ mon_update = [s \in SessionIds |-> NoUpdate]
  /\ abort_req = [s \in SessionIds |-> FALSE]
  /\ channel = <<>>
  /\ cancelLog = [s \in SessionIds |-> <<>>]
  /\ lastRead = [s \in SessionIds |-> NoRead]
  /\ polls = [s \in SessionIds |-> 0]
  /\ stderr = [s \in SessionIds |-> <<>>]
  /\ rd = [s \in SessionIds |-> "idle"]
  /\ wr = "idle"

\* run_server: the receiver of the channel is kept and never read
Init == InitService /\ cli = "off"

\* run_cli_mode: the channel is read by the progress loop
InitCli == InitService /\ cli = "recv"

Exists(s) == s \in DOMAIN sessions

\* ---------------------------------------------------- DiagnosticService API
NewSession(id, request) ==
  [id |-> id, status |-> "Pending", progress |-> Zero, current_task |-> "None",
   completed_tasks |-> 0, total_tasks |-> Len(request),
   completed_at |-> "None", output_path |-> "None", errors |-> <<>>]

\* start_diagnostics: build the Pending session, insert it, spawn the runner
start_diagnostics(request) ==
  /\ Len(sessions) < MaxSessions
  /\ LET id == Len(sessions) + 1 IN
       /\ sessions' = Append(sessions, NewSession(id, request))
       /\ selected_tasks' = [selected_tasks EXCEPT ![id] = request]
       /\ rpc' = [rpc EXCEPT ![id] = "spawned"]
  /\ UNCHANGED <<is_admin, session_lock, idx, result, app_state, mpc,
                 mon_local, mon_update, abort_req, channel, cancelLog, lastRead, polls, stderr, rd, wr, cli>>

\* (mutation: a session that has ended is no longer found)
get_session_Evicting(s) ==
  /\ IF Exists(s) /\ sessions[s].status \notin Terminal
       THEN /\ session_lock[s] = "free"
            /\ lastRead' = [lastRead EXCEPT ![s] = sessions[s]]
       ELSE lastRead' = [lastRead EXCEPT ![s] = NoRead]
  /\ polls' = [polls EXCEPT ![s] = IF @ < 2 THEN @ + 1 ELSE @]
  /\ UNCHANGED <<is_admin, sessions, session_lock, selected_tasks, rpc, idx,
                 result, app_state, mpc, mon_local, mon_update, abort_req,
                 channel, cancelLog, stderr, rd, wr, cli>>

\* get_session: a clone of the record taken under the session lock
get_session(s) ==
  /\ IF Exists(s)
       THEN /\ session_lock[s] = "free"
            /\ lastRead' = [lastRead EXCEPT ![s] = sessions[s]]
       ELSE lastRead' = [lastRead EXCEPT ![s] = NoRead]
  /\ polls' = [polls EXCEPT ![s] = IF @ < 2 THEN @ + 1 ELSE @]
  /\ UNCHANGED <<is_admin, sessions, session_lock, selected_tasks, rpc, idx,
                 result, app_state, mpc, mon_local, mon_update, abort_req,
                 channel, cancelLog, stderr, rd, wr, cli>>

\* (mutation: the status check is missing)
CancelWrite_AnyStatus(sess) ==
  [sess EXCEPT !.status = "Cancelled", !.completed_at = "Some"]

\* (mutation: the status write is missing)
CancelWrite_NoStatus(sess) ==
  IF sess.status = "Running"
    THEN [sess EXCEPT !.completed_at = "Some"]
    ELSE sess

CancelWrite(sess) ==
  IF sess.status = "Running"
    THEN [sess EXCEPT !.status = "Cancelled", !.completed_at = "Some"]
    ELSE sess

CancelResult(sess) ==
  IF sess.status = "Running" THEN "Ok" ELSE "Session is not running"

\* cancel_session
cancel_session(s) ==
  /\ Len(cancelLog[s]) < MaxCancelCalls
  /\ IF Exists(s)
       THEN /\ session_lock[s] = "free"
            /\ sessions' = [sessions EXCEPT ![s] = CancelWrite(sessions[s])]
            /\ cancelLog' = [cancelLog EXCEPT ![s] = Append(@, CancelResult(sessions[s]))]
       ELSE /\ sessions' = sessions
            /\ cancelLog' = [cancelLog EXCEPT ![s] = Append(@, "Session not found")]
  /\ UNCHANGED <<is_admin, session_lock, selected_tasks, rpc, idx, result,
                 app_state, mpc, mon_local, mon_update, abort_req, channel,
                 lastRead, polls, stderr, rd, wr, cli>>

\* --------------------------------------------- the store's tokio RwLock
\* The handlers above take the store lock and the session mutex in one
\* step.  The actions below split the two handlers that await twice.
\* tokio's RwLock is fair: a reader that arrives while a writer waits
\* queues behind the writer.

\* get_session up to `session_arc.lock().await`: the read guard is taken
\* and kept; an unknown id is answered at once
GetBegin(s) ==
  /\ rd[s] = "idle"
  /\ wr = "idle"
  /\ IF Exists(s)
       THEN /\ rd' = [rd EXCEPT ![s] = "get"]
            /\ UNCHANGED <<lastRead, polls>>
       ELSE /\ lastRead' = [lastRead EXCEPT ![s] = NoRead]
            /\ polls' = [polls EXCEPT ![s] = IF @ < 2 THEN @ + 1 ELSE @]
            /\ rd' = rd
  /\ UNCHANGED <<is_admin, sessions, session_lock, selected_tasks, rpc, idx,
                 result, app_state, mpc, mon_local, mon_update, abort_req,
                 channel, cancelLog, stderr, wr, cli>>

\* the session mutex is acquired, the record cloned, both guards dropped
GetEnd(s) ==
  /\ rd[s] = "get"
  /\ session_lock[s] = "free"
  /\ lastRead' = [lastRead EXCEPT ![s] = sessions[s]]
  /\ polls' = [polls EXCEPT ![s] = IF @ < 2 THEN @ + 1 ELSE @]
  /\ rd' = [rd EXCEPT ![s] = "idle"]
  /\ UNCHANGED <<is_admin, sessions, session_lock, selected_tasks, rpc, idx,
                 result, app_state, mpc, mon_local, mon_update, abort_req,
                 channel, cancelLog, stderr, wr, cli>>

\* start_diagnostics up to `self.sessions.write().await`
StartBegin ==
  /\ wr = "idle"
  /\ wr' = "wait"
  /\ UNCHANGED <<is_admin, sessions, session_lock, selected_tasks, rpc, idx,
                 result, app_state, mpc, mon_local, mon_update, abort_req,
                 channel, cancelLog, lastRead, polls, stderr, rd, cli>>

\* the write guard is granted when no read guard is out: insert, spawn.
\* A session past MaxSessions is inserted and not followed further.
StartInsert(request) ==
  /\ wr = "wait"
  /\ \A s \in SessionIds : rd[s] = "idle"
  /\ wr' = "idle"
  /\ IF Len(sessions) < MaxSessions
       THEN LET id == Len(sessions) + 1 IN
              /\ sessions' = Append(sessions, NewSession(id, request))
              /\ selected_tasks' = [selected_tasks EXCEPT ![id] = request]
              /\ rpc' = [rpc EXCEPT ![id] = "spawned"]
       ELSE UNCHANGED <<sessions, selected_tasks, rpc>>
  /\ UNCHANGED <<is_admin, session_lock, idx, result, app_state, mpc,
                 mon_local, mon_update, abort_req, channel, cancelLog,
                 lastRead, polls, stderr, rd, cli>>

\* ------------------------------------------------------------ run_cli_mode
\* start_diagnostics called by run_cli_mode: once
CliStart(request) ==
  /\ cli = "recv"
  /\ sessions = <<>>
  /\ start_diagnostics(request)

\* (mutation: the loop ends on Completed only)
CliRecv_OnlyCompleted ==
  /\ cli = "recv"
  /\ channel # <<>>
  /\ channel' = Tail(channel)
  /\ cli' = IF Head(channel).status = "Completed" THEN "read" ELSE "recv"
  /\ UNCHANGED <<is_admin, sessions, session_lock, selected_tasks, rpc, idx,
                 result, app_state, mpc, mon_local, mon_update, abort_req,
                 cancelLog, lastRead, polls, stderr, rd, wr>>

\* `while let Some(update) = rx.recv().await`: break on a terminal status
CliRecv ==
  /\ cli = "recv"
  /\ channel # <<>>
  /\ channel' = Tail(channel)
  /\ cli' = IF Head(channel).status \in Terminal THEN "read" ELSE "recv"
  /\ UNCHANGED <<is_admin, sessions, session_lock, selected_tasks, rpc, idx,
                 result, app_state, mpc, mon_local, mon_update, abort_req,
                 cancelLog, lastRead, polls, stderr, rd, wr>>

\* "Get final session state": service.get_session(session.id)
CliFinal(s) ==
  /\ cli = "read"
  /\ Exists(s)
  /\ session_lock[s] = "free"
  /\ lastRead' = [lastRead EXCEPT ![s] = sessions[s]]
  /\ polls' = [polls EXCEPT ![s] = IF @ < 2 THEN @ + 1 ELSE @]
  /\ cli' = "done"
  /\ UNCHANGED <<is_admin, sessions, session_lock, selected_tasks, rpc, idx,
                 result, app_state, mpc, mon_local, mon_update, abort_req,
                 channel, cancelLog, stderr, rd, wr>>

\* ------------------------------------------- run_diagnostics_with_progress
\* (mutation: the guard of the status block is kept over the run)
RunnerSetRunning_KeepsLock(s) ==
  /\ rpc[s] = "spawned"
  /\ session_lock[s] = "free"
  /\ sessions' = [sessions EXCEPT ![s].status = "Running"]
  /\ session_lock' = [session_lock EXCEPT ![s] = "runner"]
  /\ rpc' = [rpc EXCEPT ![s] = "setup"]
  /\ UNCHANGED <<is_admin, selected_tasks, idx, result,
                 app_state, mpc, mon_local, mon_update, abort_req, channel,
                 cancelLog, lastRead, polls, stderr, rd, wr, cli>>

\* "Update status to running"
RunnerSetRunning(s) ==
  /\ rpc[s] = "spawned"
  /\ session_lock[s] = "free"
  /\ sessions' = [sessions EXCEPT ![s].status = "Running"]
  /\ rpc' = [rpc EXCEPT ![s] = "setup"]
  /\ UNCHANGED <<is_admin, session_lock, selected_tasks, idx, result,
                 app_state, mpc, mon_local, mon_update, abort_req, channel,
                 cancelLog, lastRead, polls, stderr, rd, wr, cli>>

NewAppState(request) ==
  [progress |-> Zero, current_task |-> "", is_running |-> TRUE,
   tasks_completed |-> 0, total_tasks |-> Len(request)]

\* (mutation: the setup error is noted and the run goes on)
RunnerSetup_RunsAnyway(s, fs_ok) ==
  /\ rpc[s] = "setup"
  /\ app_state' = [app_state EXCEPT ![s] = NewAppState(selected_tasks[s])]
  /\ mpc' = [mpc EXCEPT ![s] = "sleep"]
  /\ rpc' = [rpc EXCEPT ![s] = "run_init"]
  /\ result' = IF fs_ok THEN result ELSE [result EXCEPT ![s] = "ErrSetup"]
  /\ UNCHANGED <<is_admin, sessions, session_lock, selected_tasks, idx,
                 mon_local, mon_update, abort_req, channel, cancelLog, lastRead,
                 polls, stderr, rd, wr, cli>>

\* "Setup paths" .. "Create progress monitoring task": a failing
\* remove_dir_all / create_dir_all returns Err before AppState and the
\* monitor exist; otherwise AppState is built and the monitor is spawned.
RunnerSetup(s, fs_ok) ==
  /\ rpc[s] = "setup"
  /\ IF fs_ok
       THEN /\ app_state' = [app_state EXCEPT ![s] = NewAppState(selected_tasks[s])]
            /\ mpc' = [mpc EXCEPT ![s] = "sleep"]
            /\ rpc' = [rpc EXCEPT ![s] = "run_init"]
            /\ result' = result
       ELSE /\ rpc' = [rpc EXCEPT ![s] = "final"]
            /\ result' = [result EXCEPT ![s] = "ErrSetup"]
            /\ UNCHANGED <<app_state, mpc>>
  /\ UNCHANGED <<is_admin, sessions, session_lock, selected_tasks, idx,
                 mon_local, mon_update, abort_req, channel, cancelLog, lastRead, polls, stderr, rd, wr, cli>>

\* ------------------------------------------------------ run_all_diagnostics
\* "Filter tasks based on admin privileges", "Update state with total tasks"
RunAllInit(s) ==
  /\ rpc[s] = "run_init"
  /\ app_state' = [app_state EXCEPT
                     ![s].total_tasks = Len(FilteredTasks(is_admin)),
                     ![s].tasks_completed = 0]
  /\ idx' = [idx EXCEPT ![s] = 0]
  /\ rpc' = [rpc EXCEPT ![s] = "loop"]
  /\ UNCHANGED <<is_admin, sessions, session_lock, selected_tasks, result,
                 mpc, mon_local, mon_update, abort_req, channel, cancelLog,
                 lastRead, polls, stderr, rd, wr, cli>>

\* "Update current task", then the collector of tasks[i] is invoked
TaskBegin(s) ==
  /\ rpc[s] = "loop"
  /\ idx[s] < Len(FilteredTasks(is_admin))
  /\ app_state' = [app_state EXCEPT
                     ![s].current_task = FilteredTasks(is_admin)[idx[s] + 1].name]
  /\ rpc' = [rpc EXCEPT ![s] = "exec"]
  /\ UNCHANGED <<is_admin, sessions, session_lock, selected_tasks, idx, result,
                 mpc, mon_local, mon_update, abort_req, channel, cancelLog,
                 lastRead, polls, stderr, rd, wr, cli>>

\* (mutation: the fraction of the tasks still to run)
TaskProgress_Remaining(i, total) == Frac(total - (i + 1), total)

\* progress after task i (0-based): (i + 1) as f32 / total_tasks as f32
TaskProgress(i, total) == Frac(i + 1, total)

\* The collector returns (an Err is only printed), "Update progress"
TaskEnd(s, collector_ok) ==
  /\ rpc[s] = "exec"
  /\ app_state' = [app_state EXCEPT
                     ![s].tasks_completed = idx[s] + 1,
                     ![s].progress = TaskProgress(idx[s], Len(FilteredTasks(is_admin)))]
  /\ stderr' = IF collector_ok THEN stderr
               ELSE [stderr EXCEPT
                       ![s] = Append(@, FilteredTasks(is_admin)[idx[s] + 1].name)]
  /\ idx' = [idx EXCEPT ![s] = idx[s] + 1]
  /\ rpc' = [rpc EXCEPT ![s] = "loop"]
  /\ UNCHANGED <<is_admin, sessions, session_lock, selected_tasks, result,
                 mpc, mon_local, mon_update, abort_req, channel, cancelLog,
                 lastRead, polls, rd, wr, cli>>

\* (mutation: the zip is created once one task has returned)
ZipBegin_Early(s) ==
  /\ rpc[s] = "loop"
  /\ idx[s] >= 1
  /\ app_state' = [app_state EXCEPT ![s].current_task = "Compression"]
  /\ rpc' = [rpc EXCEPT ![s] = "zip"]
  /\ UNCHANGED <<is_admin, sessions, session_lock, selected_tasks, idx, result,
                 mpc, mon_local, mon_update, abort_req, channel, cancelLog,
                 lastRead, polls, stderr, rd, wr, cli>>

\* "Create zip file": the state update before file_ops::create_zip
ZipBegin(s) ==
  /\ rpc[s] = "loop"
  /\ idx[s] >= Len(FilteredTasks(is_admin))
  /\ app_state' = [app_state EXCEPT ![s].current_task = "Compression"]
  /\ rpc' = [rpc EXCEPT ![s] = "zip"]
  /\ UNCHANGED <<is_admin, sessions, session_lock, selected_tasks, idx, result,
                 mpc, mon_local, mon_update, abort_req, channel, cancelLog,
                 lastRead, polls, stderr, rd, wr, cli>>

\* create_zip returns: Err leaves through `?` (run_all_diagnostics and then
\* run_diagnostics_with_progress, before monitor_handle.abort()); Ok is
\* followed by "Final status"
ZipEnd(s, zip_ok) ==
  /\ rpc[s] = "zip"
  /\ IF zip_ok
       THEN /\ app_state' = [app_state EXCEPT
                               ![s].current_task = "Finished",
                               ![s].progress = One,
                               ![s].is_running = FALSE]
            /\ rpc' = [rpc EXCEPT ![s] = "open"]
            /\ result' = result
       ELSE /\ rpc' = [rpc EXCEPT ![s] = "final"]
            /\ result' = [result EXCEPT ![s] = "ErrZip"]
            /\ app_state' = app_state
  /\ UNCHANGED <<is_admin, sessions, session_lock, selected_tasks, idx,
                 mpc, mon_local, mon_update, abort_req, channel, cancelLog,
                 lastRead, polls, stderr, rd, wr, cli>>

\* Some(output_path) of "Return appropriate output based on format"
OutputPath(format) == IF format = "Json" THEN "Some(json_path)" ELSE "Some(zip_path)"

\* "Open the zip file" (cfg(windows): a failing spawn leaves through `?`);
\* on Ok run_all_diagnostics returns and "Stop monitoring" aborts the monitor
OpenZip(s, spawn_ok, format) ==
  /\ rpc[s] = "open"
  /\ rpc' = [rpc EXCEPT ![s] = "final"]
  /\ IF spawn_ok
       THEN /\ abort_req' = [abort_req EXCEPT ![s] = TRUE]
            /\ result' = [result EXCEPT ![s] = OutputPath(format)]
       ELSE /\ abort_req' = abort_req
            /\ result' = [result EXCEPT ![s] = "ErrOpen"]
  /\ UNCHANGED <<is_admin, sessions, session_lock, selected_tasks, idx,
                 app_state, mpc, mon_local, mon_update, channel, cancelLog,
                 lastRead, polls, stderr, rd, wr, cli>>

\* ------------------------------------------ the task spawned by start_diagnostics
IsErr(r) == r \in {"ErrSetup", "ErrZip", "ErrOpen"}

\* (mutation: the Ok branch does not store the output path)
FinalStatus_NoPath(sess, r) ==
  IF IsErr(r)
    THEN [sess EXCEPT !.status = "Failed",
                      !.errors = Append(@, r),
                      !.completed_at = "Some"]
    ELSE [sess EXCEPT !.status = "Completed",
                      !.completed_at = "Some"]

\* (mutation: the Err branch does not push the error)
FinalStatus_NoErrorPush(sess, r) ==
  IF IsErr(r)
    THEN [sess EXCEPT !.status = "Failed",
                      !.completed_at = "Some"]
    ELSE [sess EXCEPT !.status = "Completed",
                      !.output_path = r,
                      !.completed_at = "Some"]

\* (mutation: the final write leaves the status as it is)
FinalStatus_KeepsStatus(sess, r) ==
  IF IsErr(r)
    THEN [sess EXCEPT !.errors = Append(@, r),
                      !.completed_at = "Some"]
    ELSE [sess EXCEPT !.output_path = r,
                      !.completed_at = "Some"]

\* (mutation: the Err branch does not set completed_at)
FinalStatus_NoCompletedAt(sess, r) ==
  IF IsErr(r)
    THEN [sess EXCEPT !.status = "Failed",
                      !.errors = Append(@, r)]
    ELSE [sess EXCEPT !.status = "Completed",
                      !.output_path = r,
                      !.completed_at = "Some"]

\* "Update final status"
FinalStatus(sess, r) ==
  IF IsErr(r)
    THEN [sess EXCEPT !.status = "Failed",
                      !.errors = Append(@, r),
                      !.completed_at = "Some"]
    ELSE [sess EXCEPT !.status = "Completed",
                      !.output_path = r,
                      !.completed_at = "Some"]

FinalWrite(s) ==
  /\ rpc[s] = "final"
  /\ session_lock[s] = "free"
  /\ sessions' = [sessions EXCEPT ![s] = FinalStatus(sessions[s], result[s])]
  /\ session_lock' = [session_lock EXCEPT ![s] = "runner"]
  /\ rpc' = [rpc EXCEPT ![s] = "final_send"]
  /\ UNCHANGED <<is_admin, selected_tasks, idx, result, app_state, mpc,
                 mon_local, mon_update, abort_req, channel, cancelLog, lastRead, polls, stderr, rd, wr, cli>>

FinalUpdate(sess) ==
  [session_id |-> sess.id, progress |-> sess.progress, status |-> sess.status,
   completed_tasks |-> sess.completed_tasks, total_tasks |-> sess.total_tasks]

\* "Send final progress update": send().await with the session lock held,
\* which waits while the channel is full
FinalSend(s) ==
  /\ rpc[s] = "final_send"
  /\ Len(channel) < ChanCap
  /\ channel' = Append(channel, FinalUpdate(sessions[s]))
  /\ session_lock' = [session_lock EXCEPT ![s] = "free"]
  /\ rpc' = [rpc EXCEPT ![s] = "done"]
  /\ UNCHANGED <<is_admin, sessions, selected_tasks, idx, result, app_state,
                 mpc, mon_local, mon_update, abort_req, cancelLog, lastRead, polls, stderr, rd, wr, cli>>

\* ------------------------------------------------------------- the monitor
\* after the 200 ms sleep: copy the fields out of AppState
MonitorRead(s) ==
  /\ mpc[s] = "sleep"
  /\ ~abort_req[s]
  /\ mon_local' = [mon_local EXCEPT ![s] = app_state[s]]
  /\ mpc' = [mpc EXCEPT ![s] = "lock"]
  /\ UNCHANGED <<is_admin, sessions, session_lock, selected_tasks, rpc, idx,
                 result, app_state, mon_update, abort_req, channel, cancelLog,
                 lastRead, polls, stderr, rd, wr, cli>>

\* (mutation: completed_tasks is not copied)
MonitorCopy_StaleCompleted(sess, app) ==
  [sess EXCEPT !.progress = app.progress,
               !.current_task = IF app.current_task = "" THEN "None"
                                ELSE app.current_task]

\* (mutation: the monitor also writes the status)
MonitorCopy_SetsStatus(sess, app) ==
  [sess EXCEPT !.progress = app.progress,
               !.current_task = IF app.current_task = "" THEN "None"
                                ELSE app.current_task,
               !.completed_tasks = app.tasks_completed,
               !.status = "Running"]

MonitorCopy(sess, app) ==
  [sess EXCEPT !.progress = app.progress,
               !.current_task = IF app.current_task = "" THEN "None"
                                ELSE app.current_task,
               !.completed_tasks = app.tasks_completed]

MonitorUpdate(sess, app) ==
  [session_id |-> sess.id, progress |-> app.progress, status |-> sess.status,
   completed_tasks |-> app.tasks_completed, total_tasks |-> app.total_tasks]

\* session_clone.lock().await, the three writes, the ProgressUpdate
MonitorWrite(s) ==
  /\ mpc[s] = "lock"
  /\ session_lock[s] = "free"
  /\ sessions' = [sessions EXCEPT ![s] = MonitorCopy(sessions[s], mon_local[s])]
  /\ mon_update' = [mon_update EXCEPT ![s] = MonitorUpdate(sessions[s], mon_local[s])]
  /\ mpc' = [mpc EXCEPT ![s] = "send"]
  /\ UNCHANGED <<is_admin, session_lock, selected_tasks, rpc, idx, result,
                 app_state, mon_local, abort_req, channel, cancelLog, lastRead, polls, stderr, rd, wr, cli>>

\* progress_sender_clone.send(..).await, then `if !is_running { break }`
MonitorSend(s) ==
  /\ mpc[s] = "send"
  /\ Len(channel) < ChanCap
  /\ channel' = Append(channel, mon_update[s])
  /\ mon_update' = [mon_update EXCEPT ![s] = NoUpdate]
  /\ mpc' = [mpc EXCEPT ![s] = IF mon_local[s].is_running THEN "sleep" ELSE "done"]
  /\ UNCHANGED <<is_admin, sessions, session_lock, selected_tasks, rpc, idx,
                 result, app_state, mon_local, abort_req, cancelLog, lastRead, polls, stderr, rd, wr, cli>>

\* monitor_handle.abort() takes effect where the monitor is suspended: in
\* the sleep, waiting for the session lock, or waiting for channel capacity
MonitorAborted(s) ==
  /\ abort_req[s]
  /\ \/ mpc[s] = "sleep"
     \/ mpc[s] = "lock" /\ session_lock[s] # "free"
     \/ mpc[s] = "send" /\ Len(channel) >= ChanCap
  /\ mpc' = [mpc EXCEPT ![s] = "done"]
  /\ mon_update' = [mon_update EXCEPT ![s] = NoUpdate]
  /\ UNCHANGED <<is_admin, sessions, session_lock, selected_tasks, rpc, idx,
                 result, app_state, mon_local, abort_req, channel, cancelLog,
                 lastRead, polls, stderr, rd, wr, cli>>

\* ------------------------------------------------------------ specification
\* The runner and the monitor of every session; the collectors return one
\* of `outcomes` (TRUE: Ok, FALSE: Err)
Tasks(outcomes) ==
  \/ \E s \in SessionIds : RunnerSetRunning(s)
  \/ \E s \in SessionIds, fs_ok \in BOOLEAN : RunnerSetup(s, fs_ok)
  \/ \E s \in SessionIds : RunAllInit(s)
  \/ \E s \in SessionIds : TaskBegin(s)
  \/ \E s \in SessionIds, collector_ok \in outcomes : TaskEnd(s, collector_ok)
  \/ \E s \in SessionIds : ZipBegin(s)
  \/ \E s \in SessionIds, zip_ok \in BOOLEAN : ZipEnd(s, zip_ok)
  \/ \E s \in SessionIds, spawn_ok \in BOOLEAN, format \in OutputFormats :
       OpenZip(s, spawn_ok, format)
  \/ \E s \in SessionIds : FinalWrite(s)
  \/ \E s \in SessionIds : FinalSend(s)
  \/ \E s \in SessionIds : MonitorRead(s)
  \/ \E s \in SessionIds : MonitorWrite(s)
  \/ \E s \in SessionIds : MonitorSend(s)
  \/ \E s \in SessionIds : MonitorAborted(s)

\* stderr is written and never read: the specifications about the session
\* record and the channel let every collector succeed, SpecCollect lets any
\* of them fail
Background == Tasks({TRUE})

\* Server mode, any request, callers that start and cancel
Next ==
  \/ \E request \in Requests : start_diagnostics(request)
  \/ \E s \in SessionIds : cancel_session(s)
  \/ Background

Spec == Init /\ [][Next]_vars

\* Server mode, the scenario request, callers that start, poll and cancel
NextRead ==
  \/ \E request \in ScenarioRequests : start_diagnostics(request)
  \/ \E s \in SessionIds : get_session(s)
  \/ \E s \in SessionIds : cancel_session(s)
  \/ Background

SpecRead == Init /\ [][NextRead]_vars

\* Server mode, any request, any collector may fail, no cancel is issued
NextCollect ==
  \/ \E request \in Requests : start_diagnostics(request)
  \/ Tasks(BOOLEAN)

SpecCollect == Init /\ [][NextCollect]_vars

\* The steps of the runner task of session s, every collector and create_zip
\* returning
RunnerStep(s) ==
  \/ RunnerSetRunning(s)
  \/ \E fs_ok \in BOOLEAN : RunnerSetup(s, fs_ok)
  \/ RunAllInit(s)
  \/ TaskBegin(s)
  \/ TaskEnd(s, TRUE)
  \/ ZipBegin(s)
  \/ \E zip_ok \in BOOLEAN : ZipEnd(s, zip_ok)
  \/ \E spawn_ok \in BOOLEAN, format \in OutputFormats : OpenZip(s, spawn_ok, format)
  \/ FinalWrite(s)
  \/ FinalSend(s)

\* The steps of the monitor task of session s
MonitorStep(s) ==
  \/ MonitorRead(s)
  \/ MonitorWrite(s)
  \/ MonitorSend(s)
  \/ MonitorAborted(s)

\* Server mode, the scenario request, callers that start and cancel
NextLive ==
  \/ \E request \in ScenarioRequests : start_diagnostics(request)
  \/ \E s \in SessionIds : cancel_session(s)
  \/ Background

\* The tokio runtime keeps polling every spawned task that can make a step
SpecFair ==
  /\ Init
  /\ [][NextLive]_vars
  /\ \A s \in SessionIds : WF_vars(RunnerStep(s)) /\ WF_vars(MonitorStep(s))

\* Server mode, the scenario request, start and get_session with the
\* store lock and the session mutex taken in separate steps
NextStore ==
  \/ StartBegin
  \/ \E request \in ScenarioRequests : StartInsert(request)
  \/ \E s \in SessionIds : GetBegin(s)
  \/ \E s \in SessionIds : GetEnd(s)
  \/ Background

SpecStore == Init /\ [][NextStore]_vars

\* CLI mode: one session, the progress loop, the final read
NextCli ==
  \/ \E request \in Requests : CliStart(request)
  \/ CliRecv
  \/ \E s \in SessionIds : CliFinal(s)
  \/ Background

SpecCli ==
  /\ InitCli
  /\ [][NextCli]_vars
  /\ WF_vars(\E request \in Requests : CliStart(request))
  /\ WF_vars(CliRecv)
  /\ \A s \in SessionIds :
       WF_vars(RunnerStep(s)) /\ WF_vars(MonitorStep(s)) /\ WF_vars(CliFinal(s))

TypeOK ==
  /\ is_admin \in BOOLEAN
  /\ Len(sessions) <= MaxSessions
  /\ \A s \in DOMAIN sessions :
       sessions[s].status \in {"Pending", "Running"} \cup Terminal
  /\ Len(channel) <= ChanCap
  /\ \A s \in SessionIds :
       \A i \in 1..Len(stderr[s]) :
         \E k \in 1..Len(DIAGNOSTIC_TASKS) : stderr[s][i] = DIAGNOSTIC_TASKS[k].name
  /\ \A s \in SessionIds : rd[s] \in {"idle", "get"}
  /\ wr \in {"idle", "wait"}
  /\ cli \in {"off", "recv", "read", "done"}

\* ------------------------------------------------------------------ claims
CancelAccepted(s) == \E i \in 1..Len(cancelLog[s]) : cancelLog[s][i] = "Ok"

\* collectors of the session started so far
TasksStarted(s) == idx[s] + (IF rpc[s] = "exec" THEN 1 ELSE 0)

\* create_zip has been called for the session
PackagerInvoked(s) ==
  \/ rpc[s] \in {"zip", "open"}
  \/ result[s] \in {"ErrZip", "ErrOpen", "Some(json_path)", "Some(zip_path)"}

\* C1: once a session's status is Completed, Failed or Cancelled it never
\* changes again.
C1_TerminalIsFinal ==
  [][\A s \in DOMAIN sessions :
       sessions[s].status \in Terminal => sessions'[s].status = sessions[s].status]_vars

\* C2: after cancel_session has returned success, the runner starts no
\* further collector and does not invoke the packager.
C2_CancelStopsRunner ==
  [][\A s \in SessionIds :
       CancelAccepted(s) =>
         /\ TasksStarted(s)' = TasksStarted(s)
         /\ PackagerInvoked(s)' = PackagerInvoked(s)]_vars

\* C3: cancel_session succeeds exactly when the session exists and is
\* Running; on an unknown id or a session in any other status it returns an
\* error and changes no field of any session.
C3_CancelOnlyRunning ==
  [][\A s \in SessionIds :
       cancelLog'[s] # cancelLog[s] =>
         LET r == cancelLog'[s][Len(cancelLog'[s])] IN
           /\ (r = "Ok") <=> (Exists(s) /\ sessions[s].status = "Running")
           /\ (r = "Session not found") <=> ~Exists(s)
           /\ r # "Ok" => sessions' = sessions]_vars

\* C3 witness: both errors were returned, the later one for a session that
\* had completed, and the record shows no trace of them.
C3_Witness ==
  \E s \in DOMAIN sessions :
    /\ cancelLog[s] = <<"Session not found", "Session is not running">>
    /\ sessions[s].status = "Completed"
    /\ sessions[s].errors = <<>>

\* C4: whatever runs in between, every cancel_session that follows a
\* successful one on the same session returns the not-running error.
C4_SecondCancelRejected ==
  \A s \in SessionIds :
    \A i, j \in 1..Len(cancelLog[s]) :
      (i < j /\ cancelLog[s][i] = "Ok") => cancelLog[s][j] = "Session is not running"

\* C4 witness: two calls on one session, success then error.
C4_Witness ==
  \E s \in DOMAIN sessions : cancelLog[s] = <<"Ok", "Session is not running">>

\* C5: completed_tasks <= total_tasks in every session record.
C5_CompletedLeTotal ==
  \A s \in DOMAIN sessions : sessions[s].completed_tasks <= sessions[s].total_tasks

\* C6: progress == 1.0 exactly when status == Completed.
C6_ProgressOneIffCompleted ==
  \A s \in DOMAIN sessions :
    (sessions[s].progress = One) <=> (sessions[s].status = "Completed")

\* C7: output_path is set exactly when status == Completed.
C7_OutputPathIffCompleted ==
  \A s \in DOMAIN sessions :
    (sessions[s].output_path # "None") <=> (sessions[s].status = "Completed")

\* C7 witness: a Completed session with its output path.
C7_Witness ==
  \E s \in DOMAIN sessions :
    /\ sessions[s].status = "Completed"
    /\ sessions[s].output_path = "Some(zip_path)"
    /\ rpc[s] = "done"

\* C8: completed_at is set exactly when status is terminal.
C8_CompletedAtIffTerminal ==
  \A s \in DOMAIN sessions :
    (sessions[s].completed_at # "None") <=> (sessions[s].status \in Terminal)

\* C8 witness: a Failed session and its completed_at.
C8_Witness ==
  \E s \in DOMAIN sessions :
    /\ sessions[s].status = "Failed"
    /\ sessions[s].completed_at = "Some"

\* C9: of two successive get_session reads of a session that both show
\* status Running, the later one shows a progress at least as large.
C9_RunningProgressMonotone ==
  [][\A s \in SessionIds :
       (/\ lastRead'[s] # lastRead[s]
        /\ lastRead[s].status = "Running"
        /\ lastRead'[s].status = "Running")
         => Leq(lastRead[s].progress, lastRead'[s].progress)]_vars

\* C9 witness: a second read of a Running session, whose progress has moved.
C9_Witness ==
  \E s \in DOMAIN sessions :
    /\ polls[s] = 2
    /\ lastRead[s].status = "Running"
    /\ lastRead[s].progress # Zero
    /\ lastRead[s].progress # One

\* requested ids that name a catalog task visible under the privilege
ResolvedCount(request, admin) ==
  Cardinality({i \in 1..Len(request) :
                 \E k \in 1..Len(FilteredTasks(admin)) :
                   request[i] = TaskId(FilteredTasks(admin)[k].name)})

\* C10: total_tasks is the number of requested ids that resolve to a
\* visible catalog task.
C10_TotalIsResolvedCount ==
  \A s \in DOMAIN sessions :
    sessions[s].total_tasks = ResolvedCount(selected_tasks[s], is_admin)

\* the final status of the session has been written
FinalWritten(s) == rpc[s] \in {"final_send", "done"}

\* C11: a session started with an empty id list ends Completed with
\* total_tasks = 0 and progress = 1.0.
C11_EmptyRequestCompletes ==
  \A s \in DOMAIN sessions :
    (/\ selected_tasks[s] = <<>>
     /\ FinalWritten(s)
     /\ sessions[s].status = "Completed")
      => /\ sessions[s].total_tasks = 0
         /\ sessions[s].progress = One

\* create_zip has returned Ok for the session
PackagerSucceeded(s) ==
  \/ rpc[s] = "open"
  \/ result[s] \in {"ErrOpen", "Some(json_path)", "Some(zip_path)"}

\* C12: when collectors fail, every other task is still run before the
\* packager, and if the packager succeeds and no cancel was accepted the
\* session ends Completed.
C12_CollectorFailureNotFatal ==
  \A s \in DOMAIN sessions :
    stderr[s] # <<>> =>
      /\ PackagerInvoked(s) => idx[s] = Len(FilteredTasks(is_admin))
      /\ (FinalWritten(s) /\ PackagerSucceeded(s) /\ ~CancelAccepted(s))
           => sessions[s].status = "Completed"

\* C13: every collector failure has appended one entry naming the task to
\* the session's errors, so a Completed session lists exactly its failed
\* tasks.
C13_FailureRecorded ==
  \A s \in DOMAIN sessions :
    (FinalWritten(s) /\ sessions[s].status = "Completed")
      => sessions[s].errors = stderr[s]

\* C14: when create_zip fails for a session that was not cancelled, the
\* session ends Failed, the cause is appended to errors and output_path
\* stays empty.
C14_PackagerFailureFails ==
  \A s \in DOMAIN sessions :
    (result[s] = "ErrZip" /\ FinalWritten(s) /\ ~CancelAccepted(s))
      => /\ sessions[s].status = "Failed"
         /\ sessions[s].errors = <<"ErrZip">>
         /\ sessions[s].output_path = "None"

\* C14 witness: create_zip failed, no cancel was accepted, the runner is done.
C14_Witness ==
  \E s \in DOMAIN sessions :
    /\ result[s] = "ErrZip"
    /\ rpc[s] = "done"
    /\ ~CancelAccepted(s)
    /\ sessions[s].errors = <<"ErrZip">>

\* C15: when the output directory cannot be prepared, no collector is
\* started and the packager is not invoked, and the session ends Failed
\* with the cause appended to errors.
C15_SetupFailureFails ==
  \A s \in DOMAIN sessions :
    result[s] = "ErrSetup"
      => /\ TasksStarted(s) = 0
         /\ ~PackagerInvoked(s)
         /\ FinalWritten(s) => /\ sessions[s].status = "Failed"
                               /\ sessions[s].errors = <<"ErrSetup">>

\* C15 witness: the setup failed and the runner is done.
C15_Witness ==
  \E s \in DOMAIN sessions :
    /\ result[s] = "ErrSetup"
    /\ rpc[s] = "done"
    /\ sessions[s].status = "Failed"

\* C16: start_diagnostics leaves the session in the store with status
\* Pending before its runner has taken a step; a stored session is never
\* removed, and get_session on it never answers NotFound.
C16_StartedNeverNotFound ==
  [][\A s \in SessionIds :
       /\ (~Exists(s) /\ Exists(s)')
            => (sessions'[s].status = "Pending" /\ rpc'[s] = "spawned")
       /\ Exists(s) => Exists(s)'
       /\ (Exists(s) /\ (polls'[s] # polls[s] \/ lastRead'[s] # lastRead[s]))
            => lastRead'[s] # NoRead]_vars

\* C16 witness: a read of a session that has ended returned its record.
C16_Witness ==
  \E s \in DOMAIN sessions :
    /\ sessions[s].status \in Terminal
    /\ lastRead[s] = sessions[s]

\* C17: sessions have distinct ids, a session started with the one task
\* "processor" ends Completed with completed_tasks = 1, and no step changes
\* the records of two sessions.
C17_IsolatedSingleTask ==
  [][/\ \A s, t \in DOMAIN (sessions') :
          s # t => sessions'[s].id # sessions'[t].id
     /\ \A s \in DOMAIN (sessions') :
          (/\ selected_tasks'[s] = <<"processor">>
           /\ FinalWritten(s)'
           /\ sessions'[s].status = "Completed")
            => sessions'[s].completed_tasks = 1
     /\ \A s, t \in DOMAIN sessions :
          (s # t /\ sessions'[s] # sessions[s]) => sessions'[t] = sessions[t]]_vars

\* C18: in the stream of updates (the channel, which the server never
\* receives from) no update of a session follows an update of that session
\* that carries a terminal status.
C18_TerminalUpdateIsLast ==
  \A i, j \in 1..Len(channel) :
    (i < j /\ channel[i].session_id = channel[j].session_id)
      => channel[i].status \notin Terminal

\* updates with a terminal status that the monitor of the session has sent:
\* those in the channel, less the runner's final update
MonitorTerminalUpdates(s) ==
  Cardinality({i \in 1..Len(channel) :
                 channel[i].session_id = s /\ channel[i].status \in Terminal})
    - (IF rpc[s] = "done" THEN 1 ELSE 0)

\* C19: once the monitor has sent an update carrying the terminal status it
\* does not wake from its sleep for another tick.
C19_MonitorStopsAfterTerminal ==
  [][\A s \in DOMAIN sessions :
       (sessions[s].status \in Terminal /\ MonitorTerminalUpdates(s) >= 1)
         => ~(mpc[s] = "sleep" /\ mpc'[s] = "lock")]_vars

\* C20: the runner never waits on the channel: when it is at its send there
\* is room in the channel.
C20_RunnerNeverWaits ==
  \A s \in SessionIds : rpc[s] = "final_send" => Len(channel) < ChanCap

\* C21: once completed_at of a session is set, no step changes any field of
\* its record.
C21_NoWriteAfterTerminalWrite ==
  [][\A s \in DOMAIN sessions :
       sessions[s].completed_at = "Some" => sessions'[s] = sessions[s]]_vars

\* an update of session s carrying status st is in the channel
Emitted(s, st) ==
  \E i \in 1..Len(channel) :
    channel[i].session_id = s /\ channel[i].status = st

\* C22: every terminal status a session takes is carried by an update in the
\* channel: a terminal status is not overwritten before an update carrying
\* it was sent or is about to be sent, and the final status is not left
\* with its update waiting on a full channel and the monitor gone.
C22_TerminalUpdateEmitted ==
  [][\A s \in DOMAIN sessions :
       /\ (sessions[s].status \in Terminal
           /\ sessions'[s].status # sessions[s].status)
            => \/ Emitted(s, sessions[s].status)
               \/ mpc[s] = "send" /\ mon_update[s].status = sessions[s].status
       /\ ~(/\ rpc'[s] = "final_send"
            /\ Len(channel') = ChanCap
            /\ mpc'[s] \in {"none", "done"}
            /\ ~Emitted(s, sessions[s].status)')]_vars

\* C23: a collector starts only from the loop head, for the task at the
\* loop index in the filtered catalog, with every earlier task returned; the
\* zip is created only when every task has returned.
C23_TasksSequential ==
  [][\A s \in SessionIds :
       /\ (rpc'[s] = "exec" /\ rpc[s] # "exec")
            => /\ rpc[s] = "loop"
               /\ app_state[s].tasks_completed = idx[s]
               /\ app_state'[s].current_task =
                    FilteredTasks(is_admin)[idx[s] + 1].name
       /\ (rpc'[s] = "zip" /\ rpc[s] # "zip")
            => /\ rpc[s] = "loop"
               /\ app_state[s].tasks_completed = Len(FilteredTasks(is_admin))]_vars

\* C23 witness: create_zip is running after the last task of the catalog.
C23_Witness ==
  \E s \in DOMAIN sessions :
    /\ rpc[s] = "zip"
    /\ idx[s] = Len(FilteredTasks(is_admin))
    /\ idx[s] >= 2

\* C24: while a collector or create_zip of a session is executing, the
\* session's mutex is not held across an await.
C24_NoLockDuringTask ==
  \A s \in DOMAIN sessions :
    rpc[s] \in {"exec", "zip"} => session_lock[s] = "free"

\* C24 witness: a read answered while a collector is executing shows the
\* task that is executing.
C24_Witness ==
  \E s \in DOMAIN sessions :
    /\ rpc[s] = "exec"
    /\ lastRead[s].status = "Running"
    /\ lastRead[s].current_task = app_state[s].current_task

\* C26: in every snapshot returned by get_session, progress is the fraction
\* that the runner wrote together with completed_tasks.
C26_SnapshotConsistent ==
  \A s \in SessionIds :
    lastRead[s] # NoRead
      => lastRead[s].progress =
           Frac(lastRead[s].completed_tasks, Len(FilteredTasks(is_admin)))

\* C26 witness: a snapshot taken in the middle of the run.
C26_Witness ==
  \E s \in DOMAIN sessions :
    /\ lastRead[s] # NoRead
    /\ lastRead[s].completed_tasks > 0
    /\ lastRead[s].completed_tasks < Len(FilteredTasks(is_admin))

C27_EventuallyTerminal ==
  \A s \in SessionIds :
    Exists(s) ~> (Exists(s) /\ sessions[s].status \in Terminal)

\* C27 witness: the final status is written while the channel is full.
C27_Witness ==
  \E s \in DOMAIN sessions :
    /\ sessions[s].status \in Terminal
    /\ rpc[s] = "final_send"
    /\ Len(channel) = ChanCap
    /\ ~CancelAccepted(s)

\* the runner of session s keeps the session mutex at a send that no step
\* can complete: the channel is full and the server never receives from it
SendStuck(s) ==
  /\ cli = "off"
  /\ session_lock[s] = "runner"
  /\ Len(channel) = ChanCap

\* C25: a start_diagnostics call never waits for the store behind a call on
\* some session whose mutex is never released.
C25_StoreNeverStuck ==
  ~(wr = "wait" /\ \E s \in SessionIds : rd[s] = "get" /\ SendStuck(s))

\* C28: a get_session call on a stored session never waits for a session
\* mutex that is never released.
C28_GetNeverStuck ==
  \A s \in SessionIds : ~(rd[s] = "get" /\ SendStuck(s))

\* C30: the progress loop leaves on the first update with a terminal status
\* and on no other, the CLI always gets to its end, and the snapshot it reads
\* after the loop has a terminal status.
C30_CliLoopExits ==
  /\ [][(cli = "recv" /\ channel' # channel /\ Len(channel') < Len(channel))
          => ((cli' = "read") <=> (Head(channel).status \in Terminal))]_vars
  /\ <>(cli = "done")
  /\ [](cli = "done" => \A s \in DOMAIN sessions : lastRead[s].status \in Terminal)

\* C30 witness: the CLI has read the final snapshot of a failed run.
C30_Witness ==
  /\ cli = "done"
  /\ \E s \in DOMAIN sessions : lastRead[s].status = "Failed" /\ result[s] = "ErrZip"

====
